---- MODULE Spec2Model ----
(***************************************************************************)
(* druid/src/text/format.rs: the Formatter contract, the Validation        *)
(* builder, the ValidationError taxonomy and ParseFormatter (instantiated  *)
(* at a signed integer type, i8 when Bits = 8).                            *)
(*                                                                         *)
(* Spec      : a text-editing host driving an arbitrary Formatter that     *)
(*             builds a Validation with the builder API, and the host      *)
(*             consuming it.                                               *)
(* SpecParse : the three operations of ParseFormatter applied to inputs    *)
(*             drawn from bounded sets.                                    *)
(***************************************************************************)
EXTENDS Integers, Sequences, FiniteSets, TLC

VARIABLES pc, buffer, selection, proposed, proposed_sel, validation,
          base, last, outcome, shown,
          ppc, num, text, psel, pv, pres

vars == <<pc, buffer, selection, proposed, proposed_sel, validation,
          base, last, outcome, shown, ppc, num, text, psel, pv, pres>>

hostVars == <<pc, buffer, selection, proposed, proposed_sel, validation,
              base, last, outcome, shown>>

parseVars == <<ppc, num, text, psel, pv, pres>>

(***************************************************************************)
(* Bounds                                                                  *)
(***************************************************************************)
\* width of the signed integer type T of ParseFormatter (8: i8)
Bits == 8
\* longest input string handed to ParseFormatter
MaxLen == 4
\* longest text in the host's buffer / in a text override
MaxText == 1
\* largest offset of a Selection
MaxSel == 1

(***************************************************************************)
(* Option and Result                                                       *)
(***************************************************************************)
None == [some |-> FALSE]

Some(x) == [some |-> TRUE, val |-> x]

Ok(x) == [tag |-> "Ok", val |-> x]

Err(e) == [tag |-> "Err", err |-> e]

Unit == "()"

(***************************************************************************)
(* Domains of the inputs                                                   *)
(***************************************************************************)
\* characters of the strings handed to ParseFormatter
Alphabet == {"-", "+", "0", "1", "2", "4", "8", "a"}

Strings == UNION {[1..n -> Alphabet] : n \in 0..MaxLen}

\* characters of the host's texts
TextAlphabet == {"4"}

Texts == UNION {[1..n -> TextAlphabet] : n \in 0..MaxText}

\* Selection is opaque to the formatter; the carets up to MaxSel stand for it
caret(pos) == [start |-> pos, end |-> pos]

SelectionSet == {caret(p) : p \in 0..MaxSel}

\* the kinds of the error of <T as FromStr>::Err for an integer T
IntErrorKind == {"Empty", "InvalidDigit", "PosOverflow", "NegOverflow"}

Messages == {"not a number", "out of range"}

T_MIN == -(2 ^ (Bits - 1))

T_MAX == 2 ^ (Bits - 1) - 1

T == T_MIN..T_MAX

(***************************************************************************)
(* ValidationError                                                         *)
(***************************************************************************)
from_err(err) == [variant |-> "Err", err |-> err]

with_message(msg) == [variant |-> "Message", msg |-> msg]

\* Display of the underlying error (err.fmt(f)): core's ParseIntError
ErrDisplay(e) ==
    CASE e = "Empty" -> "cannot parse integer from empty string"
      [] e = "InvalidDigit" -> "invalid digit found in string"
      [] e = "PosOverflow" -> "number too large to fit in target type"
      [] e = "NegOverflow" -> "number too small to fit in target type"

Display_NoDelegate(ve) ==
    IF ve.variant = "Err" THEN "ValidationError::Err" ELSE ve.msg

Display(ve) ==
    IF ve.variant = "Err" THEN ErrDisplay(ve.err) ELSE ve.msg

source(ve) ==
    IF ve.variant = "Err" THEN Some(ve.err) ELSE None

(***************************************************************************)
(* Validation                                                              *)
(***************************************************************************)
success ==
    [result |-> Ok(Unit), selection_change |-> None, text_change |-> None]

failure_with_err(err) ==
    [success EXCEPT !.result = Err([variant |-> "Err", err |-> err])]

failure_with_message_KeepText(message) ==
    [success EXCEPT !.result = Err([variant |-> "Message", msg |-> message]),
                    !.text_change = Some(<<>>)]

failure_with_message(message) ==
    [success EXCEPT !.result = Err([variant |-> "Message", msg |-> message])]

change_text_ClearsSelection(self, t) ==
    [self EXCEPT !.text_change = Some(t), !.selection_change = None]

change_text(self, t) ==
    [self EXCEPT !.text_change = Some(t)]

change_selection(self, sel) ==
    [self EXCEPT !.selection_change = Some(sel)]

is_err(self) == self.result.tag = "Err"

error_Always(self) ==
    IF self.result.tag = "Err" THEN Some(self.result.err)
    ELSE Some([variant |-> "Message", msg |-> ""])

error(self) ==
    IF self.result.tag = "Err" THEN Some(self.result.err) ELSE None

\* the fields of Validation declared pub: the host can assign them
HostWritable_AllPub == {"result", "selection_change", "text_change"}

HostWritable == {"selection_change", "text_change"}

NoValidation == [absent |-> TRUE]

Results ==
    {Ok(Unit)} \cup {Err(from_err(e)) : e \in IntErrorKind}
               \cup {Err(with_message(m)) : m \in Messages}

FieldValues(f) ==
    CASE f = "result" -> Results
      [] f = "selection_change" -> {None} \cup {Some(s) : s \in SelectionSet}
      [] f = "text_change" -> {None} \cup {Some(t) : t \in Texts}

(***************************************************************************)
(* T: Display (to_string) and T: FromStr (parse), for a signed integer     *)
(***************************************************************************)
DigitChar(d) ==
    CASE d = 0 -> "0" [] d = 1 -> "1" [] d = 2 -> "2" [] d = 3 -> "3"
      [] d = 4 -> "4" [] d = 5 -> "5" [] d = 6 -> "6" [] d = 7 -> "7"
      [] d = 8 -> "8" [] d = 9 -> "9"

\* char::to_digit(10); -1 stands for None
to_digit(c) ==
    CASE c = "0" -> 0 [] c = "1" -> 1 [] c = "2" -> 2 [] c = "3" -> 3
      [] c = "4" -> 4 [] c = "5" -> 5 [] c = "6" -> 6 [] c = "7" -> 7
      [] c = "8" -> 8 [] c = "9" -> 9 [] OTHER -> -1

RECURSIVE Decimal(_)
Decimal(n) ==
    IF n < 10 THEN <<DigitChar(n)>>
    ELSE Decimal(n \div 10) \o <<DigitChar(n % 10)>>

to_string(v) ==
    IF v < 0 THEN <<"-">> \o Decimal(-v) ELSE Decimal(v)

\* the digits are folded left to right with checked arithmetic; the first
\* failure met is the error returned
RECURSIVE ParseDigits(_, _, _)
ParseDigits(digits, acc, positive) ==
    IF digits = <<>> THEN Ok(acc)
    ELSE LET x == to_digit(Head(digits))
             m == acc * 10
             r == IF positive THEN m + x ELSE m - x
             overflow == IF positive THEN "PosOverflow" ELSE "NegOverflow"
         IN  IF x < 0 THEN Err("InvalidDigit")
             ELSE IF m < T_MIN \/ m > T_MAX THEN Err(overflow)
             ELSE IF r < T_MIN \/ r > T_MAX THEN Err(overflow)
             ELSE ParseDigits(Tail(digits), r, positive)

parse(src) ==
    IF src = <<>> THEN Err("Empty")
    ELSE IF src = <<"+">> \/ src = <<"-">> THEN Err("InvalidDigit")
    ELSE IF Head(src) = "+" THEN ParseDigits(Tail(src), 0, TRUE)
    ELSE IF Head(src) = "-" THEN ParseDigits(Tail(src), 0, FALSE)
    ELSE ParseDigits(src, 0, TRUE)

(***************************************************************************)
(* impl Formatter<T> for ParseFormatter                                    *)
(***************************************************************************)
format_Decorated(value) == to_string(value) \o <<"a">>

format(value) == to_string(value)

format_for_editing(value) == format(value)

validate_partial_input_Tolerant(input, sel) ==
    IF input = <<>> \/ input = <<"-">> THEN success
    ELSE IF parse(input).tag = "Ok" THEN success
    ELSE failure_with_err(parse(input).err)

validate_partial_input(input, sel) ==
    IF parse(input).tag = "Ok" THEN success
    ELSE failure_with_err(parse(input).err)

value_AsMessage(input) ==
    IF parse(input).tag = "Ok" THEN parse(input)
    ELSE Err(with_message(ErrDisplay(parse(input).err)))

value(input) ==
    IF parse(input).tag = "Ok" THEN parse(input)
    ELSE Err(from_err(parse(input).err))

(***************************************************************************)
(* Initial state                                                           *)
(***************************************************************************)
NoSelection == caret(0)

NoOp == [op |-> "none"]

Init ==
    /\ pc = "idle"
    /\ buffer = <<>>
    /\ selection = NoSelection
    /\ proposed = <<>>
    /\ proposed_sel = NoSelection
    /\ validation = NoValidation
    /\ base = "none"
    /\ last = NoOp
    /\ outcome = "none"
    /\ shown = None
    /\ ppc = "start"
    /\ num = 0
    /\ text = <<>>
    /\ psel = NoSelection
    /\ pv = NoValidation
    /\ pres = None

(***************************************************************************)
(* Spec: the host and a Formatter building a Validation                    *)
(***************************************************************************)
\* the host proposes an edit and calls validate_partial_input(input, sel)
HostEdit ==
    /\ pc = "idle"
    /\ \E t \in Texts, s \in SelectionSet :
          /\ proposed' = t
          /\ proposed_sel' = s
    /\ pc' = "validating"
    /\ validation' = NoValidation
    /\ base' = "none"
    /\ last' = [op |-> "edit"]
    /\ shown' = None
    /\ outcome' = "none"
    /\ UNCHANGED <<buffer, selection, parseVars>>

Success ==
    /\ pc = "validating"
    /\ validation' = success
    /\ base' = "success"
    /\ last' = [op |-> "success"]
    /\ pc' = "building"
    /\ UNCHANGED <<buffer, selection, proposed, proposed_sel, outcome, shown, parseVars>>

FailureWithErr ==
    /\ pc = "validating"
    /\ \E e \in IntErrorKind :
          /\ validation' = failure_with_err(e)
          /\ last' = [op |-> "failure_with_err", arg |-> e]
    /\ base' = "failure_with_err"
    /\ pc' = "building"
    /\ UNCHANGED <<buffer, selection, proposed, proposed_sel, outcome, shown, parseVars>>

FailureWithMessage ==
    /\ pc = "validating"
    /\ \E m \in Messages :
          /\ validation' = failure_with_message(m)
          /\ last' = [op |-> "failure_with_message", arg |-> m]
    /\ base' = "failure_with_message"
    /\ pc' = "building"
    /\ UNCHANGED <<buffer, selection, proposed, proposed_sel, outcome, shown, parseVars>>

ChangeText ==
    /\ pc = "building"
    /\ \E t \in Texts :
          /\ validation' = change_text(validation, t)
          /\ last' = [op |-> "change_text", arg |-> t]
    /\ UNCHANGED <<pc, buffer, selection, proposed, proposed_sel, base,
                   outcome, shown, parseVars>>

ChangeSelection ==
    /\ pc = "building"
    /\ \E s \in SelectionSet :
          /\ validation' = change_selection(validation, s)
          /\ last' = [op |-> "change_selection", arg |-> s]
    /\ UNCHANGED <<pc, buffer, selection, proposed, proposed_sel, base,
                   outcome, shown, parseVars>>

\* validate_partial_input returns the Validation to the host
Return ==
    /\ pc = "building"
    /\ pc' = "built"
    /\ last' = [op |-> "return"]
    /\ UNCHANGED <<buffer, selection, proposed, proposed_sel, validation,
                   base, outcome, shown, parseVars>>

\* the host assigns a field it can name
HostWrite ==
    /\ pc = "built"
    /\ \E f \in HostWritable : \E x \in FieldValues(f) :
          validation' = [validation EXCEPT ![f] = x]
    /\ last' = [op |-> "host_write"]
    /\ UNCHANGED <<pc, buffer, selection, proposed, proposed_sel, base,
                   outcome, shown, parseVars>>

\* the host renders the failure: Display and Error::source
HostReport ==
    /\ pc = "built"
    /\ is_err(validation)
    /\ shown' = Some([display |-> Display(error(validation).val),
                      source |-> source(error(validation).val)])
    /\ last' = [op |-> "report"]
    /\ UNCHANGED <<pc, buffer, selection, proposed, proposed_sel, validation,
                   base, outcome, parseVars>>

\* what the host's buffer becomes when it applies a Validation
ApplyText_KeepEdit(v, old, new) ==
    IF v.text_change.some THEN v.text_change.val ELSE new

ApplyText(v, old, new) ==
    IF v.text_change.some THEN v.text_change.val
    ELSE IF is_err(v) THEN old
    ELSE new

ApplySelection(v, old, new) ==
    IF v.selection_change.some THEN v.selection_change.val
    ELSE IF is_err(v) /\ ~v.text_change.some THEN old
    ELSE new

ApplyOutcome(v) ==
    IF v.text_change.some THEN "replaced"
    ELSE IF is_err(v) THEN "discarded"
    ELSE "accepted"

HostApply ==
    /\ pc = "built"
    /\ buffer' = ApplyText(validation, buffer, proposed)
    /\ selection' = ApplySelection(validation, selection, proposed_sel)
    /\ outcome' = ApplyOutcome(validation)
    /\ pc' = "idle"
    /\ last' = [op |-> "apply", edit |-> proposed]
    /\ proposed' = <<>>
    /\ proposed_sel' = NoSelection
    /\ validation' = NoValidation
    /\ base' = "none"
    /\ shown' = None
    /\ UNCHANGED parseVars

Next ==
    \/ HostEdit
    \/ Success
    \/ FailureWithErr
    \/ FailureWithMessage
    \/ ChangeText
    \/ ChangeSelection
    \/ Return
    \/ HostWrite
    \/ HostReport
    \/ HostApply

Spec == Init /\ [][Next]_vars

(***************************************************************************)
(* SpecParse: ParseFormatter applied to a value or to an input string      *)
(***************************************************************************)
\* the host renders a value: format(&value)
PFormat ==
    /\ ppc = "start"
    /\ \E v \in T :
          /\ num' = v
          /\ text' = format(v)
    /\ ppc' = "formatted"
    /\ psel' = NoSelection
    /\ pv' = NoValidation
    /\ pres' = None
    /\ UNCHANGED hostVars

PFormatForEditing ==
    /\ ppc = "start"
    /\ \E v \in T :
          /\ num' = v
          /\ text' = format_for_editing(v)
    /\ ppc' = "formatted"
    /\ psel' = NoSelection
    /\ pv' = NoValidation
    /\ pres' = None
    /\ UNCHANGED hostVars

\* the user types a text
PInput ==
    /\ ppc = "start"
    /\ \E s \in Strings, sl \in SelectionSet :
          /\ text' = s
          /\ psel' = sl
    /\ ppc' = "typed"
    /\ num' = 0
    /\ pv' = NoValidation
    /\ pres' = None
    /\ UNCHANGED hostVars

PValidate ==
    /\ ppc # "start"
    /\ pv = NoValidation
    /\ pv' = validate_partial_input(text, psel)
    /\ UNCHANGED <<ppc, num, text, psel, pres, hostVars>>

PValue ==
    /\ ppc # "start"
    /\ pres = None
    /\ pres' = Some(value(text))
    /\ UNCHANGED <<ppc, num, text, psel, pv, hostVars>>

NextParse ==
    \/ PFormat
    \/ PFormatForEditing
    \/ PInput
    \/ PValidate
    \/ PValue

SpecParse == Init /\ [][NextParse]_vars

(***************************************************************************)
(* Properties                                                              *)
(***************************************************************************)
\* C1: round trip of ParseFormatter: for every value v of T, value(format(v))
\* is Ok(w), never an error, and format(w) = format(v).
C1_RoundTrip ==
    (ppc = "formatted" /\ pres.some) =>
        /\ pres.val.tag = "Ok"
        /\ format(pres.val.val) = format(num)

C1_Witness ==
    ppc = "formatted" /\ pres.some /\ num = T_MIN /\ Len(text) = 4

\* C2: for ParseFormatter, validate_partial_input(s, sel) is a success iff
\* value(s) is Ok, whatever the selection; the empty string and a bare minus
\* sign are rejected by both.
C2_ValidateIffValue ==
    (pv # NoValidation /\ pres.some) =>
        /\ ~is_err(pv) <=> pres.val.tag = "Ok"
        /\ text \in {<<>>, <<"-">>} => is_err(pv) /\ pres.val.tag = "Err"

C2_Witness ==
    /\ ppc = "typed" /\ pv # NoValidation /\ pres.some
    /\ text = <<"-">> /\ psel = caret(MaxSel)

\* C3: for every Validation built by a base constructor and any chain of
\* change_text / change_selection, error() is None iff is_err() is false, and
\* is Some otherwise.
C3_ErrorIffIsErr ==
    validation # NoValidation =>
        /\ (error(validation) = None) <=> ~is_err(validation)
        /\ is_err(validation) => error(validation).some

C3_Witness ==
    /\ validation # NoValidation /\ is_err(validation)
    /\ last.op = "change_selection" /\ validation.text_change.some

\* C4: when the host applies a failing Validation that carries no
\* text_change, its buffer after the edit equals the buffer before the edit.
C4_FailedEditDiscarded ==
    [][(pc = "built" /\ pc' = "idle" /\ is_err(validation)
            /\ ~validation.text_change.some) => buffer' = buffer]_vars

C4_Witness ==
    /\ pc = "idle" /\ outcome = "discarded"
    /\ buffer # <<>> /\ last.edit # buffer

\* C5 (as stated): once the Validation is returned to the host, nothing the
\* host can do changes its result, its text_change or its selection_change.
C5_Immutable ==
    [][(pc = "built" /\ pc' = "built") => validation' = validation]_vars

\* C5 (amended): once the Validation is returned to the host, nothing the
\* host can do changes its result; text_change and selection_change are public
\* fields the host can overwrite.
C5_ResultImmutable ==
    [][(pc = "built" /\ pc' = "built") =>
            validation'.result = validation.result]_vars

C5_Witness ==
    /\ pc = "built" /\ last.op = "host_write"
    /\ base = "failure_with_err" /\ validation.text_change.some

\* C6: every base constructor returns a Validation with no overrides:
\* success() is Ok, failure_with_err(e) fails with the wrapped-error variant
\* holding e, failure_with_message(m) fails with the message variant holding m.
C6_BaseConstructors ==
    /\ last.op = "success" =>
          validation = [result |-> [tag |-> "Ok", val |-> Unit],
                        selection_change |-> None, text_change |-> None]
    /\ last.op = "failure_with_err" =>
          validation = [result |-> [tag |-> "Err",
                                    err |-> [variant |-> "Err", err |-> last.arg]],
                        selection_change |-> None, text_change |-> None]
    /\ last.op = "failure_with_message" =>
          validation = [result |-> [tag |-> "Err",
                                    err |-> [variant |-> "Message", msg |-> last.arg]],
                        selection_change |-> None, text_change |-> None]

C6_Witness ==
    last.op = "failure_with_message" /\ buffer # <<>>

\* C7: for ParseFormatter and an input that does not parse,
\* validate_partial_input fails with the wrapped-error variant holding the
\* parse error and value returns Err of the same variant holding the same
\* parse error; neither produces the message variant.
C7_WrappedParseError ==
    (pv # NoValidation /\ pres.some /\ parse(text).tag = "Err") =>
        /\ is_err(pv)
        /\ error(pv).some
        /\ error(pv).val.variant = "Err"
        /\ error(pv).val.err = parse(text).err
        /\ pres.val.tag = "Err"
        /\ pres.val.err.variant = "Err"
        /\ pres.val.err.err = error(pv).val.err

C7_Witness ==
    pv # NoValidation /\ pres.some /\ text = <<"4", "a">>

\* C8 (as stated): is_err() is true exactly when the Validation was built
\* from success().
C8_IsErrIffSuccess ==
    validation # NoValidation => (is_err(validation) <=> base = "success")

\* C9: change_text and change_selection set their own field and leave the
\* two others unchanged, on a success and on a failure alike; is_err() after
\* any chain is that of the base constructor; the two calls commute and a
\* repeated call keeps the last value given.
C9_FrameOfChange ==
    [][/\ last'.op = "change_text" =>
              /\ validation'.text_change = Some(last'.arg)
              /\ validation'.result = validation.result
              /\ validation'.selection_change = validation.selection_change
       /\ last'.op = "change_selection" =>
              /\ validation'.selection_change = Some(last'.arg)
              /\ validation'.result = validation.result
              /\ validation'.text_change = validation.text_change
       /\ pc' = "building" =>
              /\ is_err(validation') <=> base' # "success"
              /\ \A t \in Texts, s \in SelectionSet :
                    change_selection(change_text(validation', t), s)
                        = change_text(change_selection(validation', s), t)
              /\ \A t1 \in Texts, t2 \in Texts :
                    change_text(change_text(validation', t1), t2)
                        = change_text(validation', t2)
              /\ \A s1 \in SelectionSet, s2 \in SelectionSet :
                    change_selection(change_selection(validation', s1), s2)
                        = change_selection(validation', s2)
      ]_vars

C9_Witness ==
    /\ pc = "building" /\ last.op = "change_text"
    /\ is_err(validation) /\ validation.selection_change.some

\* C10: for the wrapped-error variant, source() is Some(the underlying error)
\* and the displayed text is the underlying error's; for the message variant,
\* source() is None and the displayed text is the held string.
C10_DisplayAndSource ==
    (pc = "built" /\ shown.some) =>
        LET ve == validation.result.err
        IN  /\ ve.variant = "Err" =>
                  /\ shown.val.source = [some |-> TRUE, val |-> ve.err]
                  /\ shown.val.display = ErrDisplay(ve.err)
            /\ ve.variant = "Message" =>
                  /\ shown.val.source = [some |-> FALSE]
                  /\ shown.val.display = ve.msg

C10_Witness ==
    /\ pc = "built" /\ shown.some
    /\ validation.result.err.variant = "Err"
    /\ validation.result.err.err = "PosOverflow"

====
